---- MODULE Spec2Model ----
(***************************************************************************)
(* Model of groups.py: the classes Element, CyclicGroup (composition       *)
(* style), Group, CyclicGroupInherit and GeneralLinearGroup.               *)
(*                                                                         *)
(* Python values are records [kind, v, rows]:                              *)
(*   kind "int"     a Python int, v its value                              *)
(*   kind "float"   a Python float, v its value counted in halves          *)
(*                  (v = 5 is 2.5), so that non-integers are exact         *)
(*   kind "list"    a nested list, rows its rows                           *)
(*   kind "ndarray" a 2-D numpy array of ints, rows its rows               *)
(* Groups are records [cls, n]; elements are records [group, value].       *)
(* Exceptions are named by their class; "none" is a normal return.         *)
(***************************************************************************)
EXTENDS Integers, Sequences, FiniteSets, TLC

VARIABLES elements, last, validations, direct, combined

vars == <<elements, last, validations, direct, combined>>

\* Largest group parameter n (order or degree) that is constructed.
MaxN == 2
\* Largest number of elements the caller holds on to at once.
MaxElems == 2
\* Largest number of counted element constructions in one run.
MaxOps == 3

-----------------------------------------------------------------------------
\* Python values

PyInt(i) == [kind |-> "int", v |-> i, rows |-> <<>>]
PyFloat(h) == [kind |-> "float", v |-> h, rows |-> <<>>]
PyList(rows) == [kind |-> "list", v |-> 0, rows |-> rows]
NdArray(rows) == [kind |-> "ndarray", v |-> 0, rows |-> rows]

NoValue == [kind |-> "none", v |-> 0, rows |-> <<>>]
NoGroup == [cls |-> "none", n |-> 0]
NoElem == [group |-> NoGroup, value |-> NoValue]

\* isinstance(value, numbers.Integral)
IsIntegral(value) == value.kind = "int"

IsNumber(value) == value.kind \in {"int", "float"}

\* a value in halves, so that ints and floats compare exactly
Halves(value) == IF value.kind = "int" THEN 2 * value.v ELSE value.v

\* a nested list whose rows differ in length: numpy.asarray raises ValueError
Ragged(value) ==
    /\ value.kind = "list"
    /\ \E i \in 1..Len(value.rows) : Len(value.rows[i]) # Len(value.rows[1])

\* numpy.asarray(value).shape for a value asarray accepts
ShapeOf(value) ==
    IF IsNumber(value) THEN <<>>
    ELSE <<Len(value.rows), Len(value.rows[1])>>

RECURSIVE DotTo(_, _, _, _, _)
DotTo(A, B, i, j, k) ==
    IF k = 0 THEN 0 ELSE DotTo(A, B, i, j, k - 1) + A[i][k] * B[k][j]

\* the rows of the matrix product of A (r x m) and B (m x c)
MatMul(A, B) ==
    [i \in 1..Len(A) |-> [j \in 1..Len(B[1]) |-> DotTo(A, B, i, j, Len(B))]]

-----------------------------------------------------------------------------
\* Groups

CyclicGroup_init(order) == [cls |-> "CyclicGroup", n |-> order]

Group_init(cls, n) == [cls |-> cls, n |-> n]

Classes == {"CyclicGroup", "CyclicGroupInherit", "GeneralLinearGroup"}

Groups ==
    {CyclicGroup_init(n) : n \in 1..MaxN}
    \cup {Group_init(cls, n) : cls \in {"CyclicGroupInherit", "GeneralLinearGroup"},
                               n \in 1..MaxN}

\* CyclicGroup.validate: raises only when the value is NOT Integral and the
\* chained comparison 0 <= value < order is true; comparing 0 with a list
\* raises TypeError; the truth value of an array of more than one entry
\* raises ValueError
CyclicGroup_validate(self, value) ==
    IF IsIntegral(value) THEN "none"
    ELSE IF value.kind = "float"
         THEN IF 0 <= value.v /\ value.v < 2 * self.n THEN "ValueError" ELSE "none"
    ELSE IF value.kind = "list" THEN "TypeError"
    ELSE IF Len(value.rows) * Len(value.rows[1]) > 1 THEN "ValueError"
    ELSE IF 0 <= value.rows[1][1] /\ value.rows[1][1] < self.n THEN "ValueError"
    ELSE "none"

\* CyclicGroup.operation and CyclicGroupInherit.operation: (a + b) % n
CyclicOperation(n, a, b) ==
    IF IsIntegral(a) /\ IsIntegral(b)
    THEN [raised |-> "none", value |-> PyInt((a.v + b.v) % n)]
    ELSE IF IsNumber(a) /\ IsNumber(b)
    THEN [raised |-> "none", value |-> PyFloat((Halves(a) + Halves(b)) % (2 * n))]
    ELSE IF IsIntegral(a) /\ b.kind = "ndarray"
    THEN [raised |-> "none",
          value |-> NdArray([i \in 1..Len(b.rows) |->
                           [j \in 1..Len(b.rows[i]) |-> (a.v + b.rows[i][j]) % n]])]
    ELSE [raised |-> "TypeError", value |-> NoValue]

CyclicGroup_operation(self, a, b) == CyclicOperation(self.n, a, b)

\* the composition-style predicate in place of the inheritance-style one
CyclicGroupInherit_validate_Loose(self, value) == CyclicGroup_validate(self, value)

\* CyclicGroupInherit._validate
CyclicGroupInherit_validate(self, value) ==
    IF ~(IsIntegral(value) /\ 0 <= value.v /\ value.v < self.n)
    THEN "ValueError"
    ELSE "none"

\* a + b with the reduction modulo n forgotten
CyclicGroupInherit_operation_NoMod(self, a, b) ==
    IF IsIntegral(a) /\ IsIntegral(b)
    THEN [raised |-> "none", value |-> PyInt(a.v + b.v)]
    ELSE CyclicOperation(self.n, a, b)

CyclicGroupInherit_operation(self, a, b) == CyclicOperation(self.n, a, b)

\* a check that the array is square, whatever self.n is
GeneralLinearGroup_validate_SquareOnly(self, value) ==
    IF Ragged(value) \/ IsNumber(value) THEN "ValueError"
    ELSE IF ~(ShapeOf(value)[1] = ShapeOf(value)[2]) THEN "ValueError"
    ELSE "none"

\* GeneralLinearGroup._validate
GeneralLinearGroup_validate(self, value) ==
    IF Ragged(value) THEN "ValueError"
    ELSE IF ~(ShapeOf(value) = <<self.n, self.n>>) THEN "ValueError"
    ELSE "none"

\* GeneralLinearGroup.operation: a @ b.  Two lists have no @ (TypeError);
\* with an array on one side numpy coerces the other side and raises
\* ValueError for a scalar operand or for mismatched inner dimensions.
GeneralLinearGroup_operation(self, a, b) ==
    IF a.kind # "ndarray" /\ b.kind # "ndarray"
    THEN [raised |-> "TypeError", value |-> NoValue]
    ELSE IF IsNumber(a) \/ IsNumber(b)
    THEN [raised |-> "ValueError", value |-> NoValue]
    ELSE IF Len(a.rows[1]) # Len(b.rows)
    THEN [raised |-> "ValueError", value |-> NoValue]
    ELSE [raised |-> "none", value |-> NdArray(MatMul(a.rows, b.rows))]

\* group._validate(value) as Element.__init__ looks it up: CyclicGroup
\* defines validate but no _validate
HasValidate(group) == group.cls \in {"CyclicGroupInherit", "GeneralLinearGroup"}

Validate(group, value) ==
    IF group.cls = "CyclicGroupInherit"
    THEN CyclicGroupInherit_validate(group, value)
    ELSE GeneralLinearGroup_validate(group, value)

\* group.operation(a, b), dispatched on the group's class
Operation(group, a, b) ==
    IF group.cls = "CyclicGroup" THEN CyclicGroup_operation(group, a, b)
    ELSE IF group.cls = "CyclicGroupInherit"
    THEN CyclicGroupInherit_operation(group, a, b)
    ELSE GeneralLinearGroup_operation(group, a, b)

\* Group.__str__ and CyclicGroup.__str__
Symbol(group) == IF group.cls = "GeneralLinearGroup" THEN "G" ELSE "C"

Group_str(self) == Symbol(self) \o ToString(self.n)

-----------------------------------------------------------------------------
\* Elements

\* Element.__init__: validated counts the calls of group._validate it made
Element_init(group, value) ==
    IF ~HasValidate(group)
    THEN [raised |-> "AttributeError", elem |-> NoElem, validated |-> 0]
    ELSE IF Validate(group, value) # "none"
    THEN [raised |-> Validate(group, value), elem |-> NoElem, validated |-> 1]
    ELSE [raised |-> "none", elem |-> [group |-> group, value |-> value],
          validated |-> 1]

\* CyclicGroup.__call__ and Group.__call__
Group_call(self, value) == Element_init(self, value)

\* the result wrapped without going through Element.__init__
Element_mul_Unchecked(self, other) ==
    IF Operation(self.group, self.value, other.value).raised # "none"
    THEN [raised |-> Operation(self.group, self.value, other.value).raised,
          elem |-> NoElem, validated |-> 0]
    ELSE [raised |-> "none",
          elem |-> [group |-> self.group,
                    value |-> Operation(self.group, self.value, other.value).value],
          validated |-> 0]

\* the right operand's group used in place of the left operand's
Element_mul_OtherGroup(self, other) ==
    IF Operation(other.group, self.value, other.value).raised # "none"
    THEN [raised |-> Operation(other.group, self.value, other.value).raised,
          elem |-> NoElem, validated |-> 0]
    ELSE Element_init(other.group,
                      Operation(other.group, self.value, other.value).value)

\* Element.__mul__: type(self)(self.group, self.group.operation(...))
Element_mul(self, other) ==
    IF Operation(self.group, self.value, other.value).raised # "none"
    THEN [raised |-> Operation(self.group, self.value, other.value).raised,
          elem |-> NoElem, validated |-> 0]
    ELSE Element_init(self.group,
                      Operation(self.group, self.value, other.value).value)

\* Element.__str__ for an element with an int payload
Element_str(self) == ToString(self.value.v) \o "_" \o Group_str(self.group)

-----------------------------------------------------------------------------
\* Candidate values handed to the program

I2 == <<<<1, 0>>, <<0, 1>>>>
D2 == <<<<2, 0>>, <<0, 2>>>>
A2 == <<<<1, 1>>, <<0, 1>>>>
B2 == <<<<0, 1>>, <<1, 0>>>>

Candidates ==
    {PyInt(i) : i \in -1..MaxN}
    \cup {PyFloat(1), PyFloat(2 * MaxN + 1)}
    \cup {PyList(I2), PyList(D2), PyList(<<<<1, 0>>, <<1>>>>)}
    \cup {NdArray(A2), NdArray(B2), NdArray(<<<<2>>>>),
          NdArray(<<<<1, 0, 0>>, <<0, 1, 0>>>>),
          NdArray(<<<<1, 0, 0>>, <<0, 1, 0>>, <<0, 0, 1>>>>)}

-----------------------------------------------------------------------------
\* State machine

Init ==
    /\ elements = {}
    /\ last = [op |-> "init", g |-> NoGroup, arg |-> NoValue, x |-> NoElem,
               y |-> NoElem, raised |-> "none", result |-> NoElem,
               validated |-> 0]
    /\ validations = 0
    /\ direct = 0
    /\ combined = 0

\* the caller keeps a returned element while it has room for it
Keep(r) ==
    IF r.raised = "none" /\ Cardinality(elements) < MaxElems
    THEN elements \cup {r.elem}
    ELSE elements

\* group(value)
Construct(g, value) ==
    /\ direct + combined < MaxOps
    /\ elements' = Keep(Group_call(g, value))
    /\ last' = [op |-> "construct", g |-> g, arg |-> value, x |-> NoElem,
                y |-> NoElem, raised |-> Group_call(g, value).raised,
                result |-> Group_call(g, value).elem,
                validated |-> Group_call(g, value).validated]
    /\ validations' = validations + Group_call(g, value).validated
    /\ direct' = direct + (IF HasValidate(g) THEN 1 ELSE 0)
    /\ UNCHANGED combined

\* x * y
Combine(x, y) ==
    /\ direct + combined < MaxOps
    /\ elements' = Keep(Element_mul(x, y))
    /\ last' = [op |-> "combine", g |-> x.group, arg |-> NoValue, x |-> x,
                y |-> y, raised |-> Element_mul(x, y).raised,
                result |-> Element_mul(x, y).elem,
                validated |-> Element_mul(x, y).validated]
    /\ validations' = validations + Element_mul(x, y).validated
    /\ combined' = combined
                   + (IF Operation(x.group, x.value, y.value).raised = "none"
                      THEN 1 ELSE 0)
    /\ UNCHANGED direct

\* CyclicGroup(order).validate(value), called directly
CallValidate(g, value) ==
    /\ g.cls = "CyclicGroup"
    /\ last' = [op |-> "validate", g |-> g, arg |-> value, x |-> NoElem,
                y |-> NoElem, raised |-> CyclicGroup_validate(g, value),
                result |-> NoElem, validated |-> 0]
    /\ UNCHANGED <<elements, validations, direct, combined>>

Next ==
    \/ \E g \in Groups, value \in Candidates : Construct(g, value)
    \/ \E x \in elements, y \in elements : Combine(x, y)
    \/ \E g \in Groups, value \in Candidates : CallValidate(g, value)

Spec == Init /\ [][Next]_vars

-----------------------------------------------------------------------------
\* Properties

\* an integer v with 0 <= v < n
InRange(g, value) == value.kind = "int" /\ 0 <= value.v /\ value.v < g.n

\* a matrix (nested list or array) with n rows of n entries each
IsSquareOfSize(value, n) ==
    /\ value.kind \in {"list", "ndarray"}
    /\ Len(value.rows) = n
    /\ \A i \in 1..Len(value.rows) : Len(value.rows[i]) = n

TypeOK ==
    /\ \A e \in elements : e.group \in Groups
    /\ Cardinality(elements) <= MaxElems
    /\ validations \in 0..MaxOps /\ direct \in 0..MaxOps /\ combined \in 0..MaxOps
    /\ last.raised \in {"none", "ValueError", "TypeError", "AttributeError"}

\* C1: CyclicGroup(n).validate(v) returns normally exactly when v is an
\* integer with 0 <= v < n, and raises ValueError for every other candidate
\* (every integer outside [0, n), every non-integer).
C1_ValidateBoundary ==
    (last.op = "validate") =>
        IF InRange(last.g, last.arg)
        THEN last.raised = "none"
        ELSE last.raised = "ValueError"

\* C2: calling CyclicGroup(n) with an integer a in [0, n) returns an Element
\* that references the group and holds a; combining two such elements
\* returns an Element of the same group with value (a + b) mod n whose
\* display is "<value>_C<n>".
C2_CyclicScenario ==
    /\ (last.op = "construct" /\ last.g.cls = "CyclicGroup"
            /\ InRange(last.g, last.arg)) =>
        /\ last.raised = "none"
        /\ last.result = [group |-> last.g, value |-> last.arg]
    /\ (last.op = "combine" /\ last.x.group.cls = "CyclicGroup"
            /\ last.y.group = last.x.group) =>
        /\ last.raised = "none"
        /\ last.result.group = last.x.group
        /\ last.result.value
               = PyInt((last.x.value.v + last.y.value.v) % last.x.group.n)
        /\ Element_str(last.result)
               = ToString((last.x.value.v + last.y.value.v) % last.x.group.n)
                 \o "_C" \o ToString(last.x.group.n)

\* C3: constructing an element of CyclicGroupInherit(n) from v succeeds, and
\* yields the element (group, v), if and only if v is an integer with
\* 0 <= v < n; for every other candidate it raises ValueError and yields no
\* element.
C3_InheritConstruct ==
    (last.op = "construct" /\ last.g.cls = "CyclicGroupInherit") =>
        IF InRange(last.g, last.arg)
        THEN /\ last.raised = "none"
             /\ last.result = [group |-> last.g, value |-> last.arg]
        ELSE /\ last.raised = "ValueError"
             /\ last.result = NoElem

\* a non-integer inside the range is refused by CyclicGroupInherit
C3_Witness ==
    /\ last.op = "construct"
    /\ last.g.cls = "CyclicGroupInherit"
    /\ last.arg.kind = "float"
    /\ 0 <= last.arg.v /\ last.arg.v < 2 * last.g.n
    /\ last.raised = "ValueError"

C5_FailedConstruct ==
    [][(last'.op = "construct" /\ last'.raised # "none") =>
          /\ last'.raised = "ValueError"
          /\ last'.result = NoElem
          /\ elements' = elements]_vars

\* C6: GeneralLinearGroup(n) accepts a candidate exactly when it is a matrix
\* (nested list or array) with n rows of n entries, and raises ValueError
\* for every other candidate.
C6_LinearValidation ==
    (last.op = "construct" /\ last.g.cls = "GeneralLinearGroup") =>
        IF IsSquareOfSize(last.arg, last.g.n)
        THEN /\ last.raised = "none"
             /\ last.result = [group |-> last.g, value |-> last.arg]
        ELSE /\ last.raised = "ValueError"
             /\ last.result = NoElem

\* an array with n rows that is not square is refused
C6_Witness ==
    /\ last.op = "construct"
    /\ last.g.cls = "GeneralLinearGroup"
    /\ last.arg.kind = "ndarray"
    /\ Len(last.arg.rows) = last.g.n
    /\ Len(last.arg.rows[1]) # last.g.n
    /\ last.raised = "ValueError"

\* C7: combining two elements of GeneralLinearGroup(n), whatever accepted
\* candidates they were built from (nested lists included), succeeds and
\* yields an element of the group whose value is the matrix product.
C7_MatrixCombine ==
    (last.op = "combine" /\ last.x.group.cls = "GeneralLinearGroup"
        /\ last.y.group = last.x.group) =>
        /\ last.raised = "none"
        /\ last.result.group = last.x.group
        /\ last.result.value.rows = MatMul(last.x.value.rows, last.y.value.rows)

\* C8 as stated: a combine step never calls the group's validation, and the
\* number of validation calls equals the number of constructions from
\* candidate values.
C8_NoRevalidation ==
    /\ (last.op = "combine") => last.validated = 0
    /\ validations = direct

\* C8 amended: validation runs exactly once in every construction of an
\* element, the construction of a combine's result included: the count of
\* validation calls is the count of constructions from candidates on a
\* group that defines _validate plus the count of combine steps whose
\* operation returned, and each step that yields an element validated once.
C8_ValidatedAtEveryConstruction ==
    /\ validations = direct + combined
    /\ (last.op \in {"construct", "combine"} /\ last.result # NoElem) =>
        last.validated = 1
    /\ (last.op = "combine"
            /\ Operation(last.x.group, last.x.value, last.y.value).raised = "none") =>
        last.validated = 1

\* a combine step has validated its result
C8_Witness ==
    /\ last.op = "combine"
    /\ last.result # NoElem
    /\ last.validated = 1
    /\ combined >= 1
    /\ validations = direct + combined

\* C9: associativity.  For the cyclic groups and all a, b, c in [0, n) the
\* two ways of bracketing the operation agree; and for any three elements
\* x, y, z of one group, (x * y) * z and x * (y * z) both exist, hold equal
\* values and reference the same group.
C9_Associativity ==
    /\ \A g \in Groups : g.cls # "GeneralLinearGroup" =>
        \A a, b, c \in {PyInt(i) : i \in 0..(g.n - 1)} :
            Operation(g, Operation(g, a, b).value, c)
                = Operation(g, a, Operation(g, b, c).value)
    /\ \A x, y, z \in elements : (x.group = y.group /\ y.group = z.group) =>
        /\ Element_mul(x, y).raised = "none"
        /\ Element_mul(y, z).raised = "none"
        /\ Element_mul(Element_mul(x, y).elem, z).raised = "none"
        /\ Element_mul(x, Element_mul(y, z).elem).raised = "none"
        /\ Element_mul(Element_mul(x, y).elem, z).elem
               = Element_mul(x, Element_mul(y, z).elem).elem

\* associativity where no operand is a nested list: ints and arrays
AssociativeOnIntsAndArrays ==
    \A x, y, z \in elements :
        (x.group = y.group /\ y.group = z.group
            /\ {x.value.kind, y.value.kind, z.value.kind} \subseteq {"int", "ndarray"}) =>
        /\ Element_mul(Element_mul(x, y).elem, z).raised = "none"
        /\ Element_mul(Element_mul(x, y).elem, z).elem
               = Element_mul(x, Element_mul(y, z).elem).elem

\* C10: for x of CyclicGroupInherit(m) and y of CyclicGroupInherit(k) with
\* m # k, x * y does not fail: it returns an element of x's group with
\* value (x.value + y.value) mod m, a valid member of x's group.
C10_MismatchedGroups ==
    (last.op = "combine"
        /\ last.x.group.cls = "CyclicGroupInherit"
        /\ last.y.group.cls = "CyclicGroupInherit"
        /\ last.x.group.n # last.y.group.n) =>
        /\ last.raised = "none"
        /\ last.result.group = last.x.group
        /\ last.result.value
               = PyInt((last.x.value.v + last.y.value.v) % last.x.group.n)
        /\ InRange(last.x.group, last.result.value)

\* x * y and y * x of mismatched groups differ in group and in value
C10_Witness ==
    /\ last.op = "combine"
    /\ last.x.group.cls = "CyclicGroupInherit"
    /\ last.y.group.cls = "CyclicGroupInherit"
    /\ last.x.group.n # last.y.group.n
    /\ last.raised = "none"
    /\ Element_mul(last.y, last.x).raised = "none"
    /\ Element_mul(last.y, last.x).elem.group # last.result.group
    /\ Element_mul(last.y, last.x).elem.value # last.result.value

====
